---- MODULE Spec2Model ----
(***************************************************************************)
(* The user and session handlers of internal/controller/users.go:          *)
(* HandleAuth, HandleUsers, HandleNewUser, HandleUpdateUser and            *)
(* HandleDeleteUser, run by concurrent clients against one user store.     *)
(* A handler is split where it calls the persistence collaborator, so      *)
(* that requests interleave exactly at the store.                          *)
(***************************************************************************)
EXTENDS Naturals, Sequences, FiniteSets, TLC

\* ------------------------------------------------------------- bounds
NumClients == 2     \* concurrent clients, each with one request in flight
MaxIds == 3         \* identifiers uuid.NewString hands out, the seed's included
MaxTime == 1        \* the clock runs 0..MaxTime

\* ---------------------------------------------------- program constants
StatusOK == 200
StatusBadRequest == 400
StatusUnauthorized == 401
StatusConflict == 409
StatusInternalServerError == 500
TokenTTL == 1       \* lifetime of a token, in ticks

ROLE_ADMIN == "Admin"
ROLE_ZONE_ADMIN == "ZoneAdmin"

\* -------------------------------------------------------------- inputs
Clients == 1..NumClients
Ids == 1..MaxIds
Usernames == {"root", "alice"}
Passwords == {"pw1", "pw2"}

\* A Go []string: the nil slice, or a slice with elements (possibly none).
NilSlice == [isNil |-> TRUE, elems |-> <<>>]
Slice(s) == [isNil |-> FALSE, elems |-> s]

\* -------------------------------------------------------------- values
NoHash == [salted |-> FALSE, pw |-> ""]
NoUser == [ID |-> 0, Username |-> "", PasswordHash |-> NoHash, Role |-> "",
           Zones |-> NilSlice]
NoToken == [Username |-> "", Role |-> "", exp |-> 0]
NoIdentity == [kind |-> "absent", Username |-> "", Role |-> ""]
NoRequest == [bodyOk |-> TRUE, cred |-> "none", id |-> 0, Username |-> "",
              Password |-> "", Role |-> "", Zones |-> NilSlice,
              fault |-> "none"]
NoBody == [kind |-> "none", Username |-> "", Token |-> NoToken,
           Zones |-> NilSlice, Role |-> "", Results |-> {}, TotalResults |-> 0]
NoResponse == [status |-> 0, message |-> "", body |-> NoBody]

VARIABLES
    store,    \* the persistence collaborator's user records
    nextId,   \* the next identifier uuid.NewString returns
    now,      \* the clock
    cred,     \* cred[c]: the token client c holds from its last login
    op,       \* op[c]: the handler of c's current or last request
    pc,       \* pc[c]: where c's request stands in its handler
    req,      \* req[c]: the request: credential presented, path id, body,
              \*         and the collaborator that fails while it is served
    ident,    \* ident[c]: the identity the request's context carries
    user,     \* user[c]: the handler's local user record
    resp      \* resp[c]: the response written to c's request

vars == <<store, nextId, now, cred, op, pc, req, ident, user, resp>>

\* --------------------------------------------------- auth collaborator
\* auth.HashPassword: a salted hash of the plaintext.
HashPassword(plaintext) == [salted |-> TRUE, pw |-> plaintext]

\* auth.ValidatePassword: whether the plaintext is the one hashed.
ValidatePassword(hash, plaintext) == hash.salted /\ hash.pw = plaintext

\* auth.GenerateToken: claims with the identity, the role and the expiry.
GenerateToken(username, role) ==
    [Username |-> username, Role |-> role, exp |-> now + TokenTTL]

\* The token validator ahead of the handlers: the identity a presented
\* credential yields at the current time.
ValidateToken(presented, token) ==
    IF presented = "token" /\ token # NoToken /\ now < token.exp
    THEN [kind |-> "valid", Username |-> token.Username, Role |-> token.Role]
    ELSE IF presented = "malformed"
    THEN [kind |-> "malformed", Username |-> "", Role |-> ""]
    ELSE NoIdentity

\* auth.HasRole: exact match of the validated identity's role.
HasRole(identity, requiredRole) ==
    identity.kind = "valid" /\ identity.Role = requiredRole

\* ---------------------------------------------------- response helpers
\* utilities.RESTError: the status and the message go to the caller.
RESTError(status, message) ==
    [status |-> status, message |-> message,
     body |-> [NoBody EXCEPT !.kind = "error"]]

\* The JSON form of an entity.User in a response: the record without its
\* password hash.
UserJSON(u) == [u EXCEPT !.PasswordHash = NoHash]

\* Variant: the login response carries the stored record as well.
LoginResponseWithRecord(u, token) ==
    [status |-> StatusOK, message |-> "",
     body |-> [NoBody EXCEPT !.kind = "login", !.Username = u.Username,
                             !.Token = token, !.Zones = u.Zones,
                             !.Role = u.Role, !.Results = {u}]]

\* Variant: the response leaves the zones out.
LoginResponseNoZones(u, token) ==
    [status |-> StatusOK, message |-> "",
     body |-> [NoBody EXCEPT !.kind = "login", !.Username = u.Username,
                             !.Token = token, !.Role = u.Role]]

\* context.JSON(http.StatusOK, entity.LoginResponse{...})
LoginResponse(u, token) ==
    [status |-> StatusOK, message |-> "",
     body |-> [NoBody EXCEPT !.kind = "login", !.Username = u.Username,
                             !.Token = token, !.Zones = u.Zones,
                             !.Role = u.Role]]

\* context.JSON(http.StatusOK, entity.RESTResult{...})
UsersResponse(users) ==
    [status |-> StatusOK, message |-> "",
     body |-> [NoBody EXCEPT !.kind = "list",
                             !.Results = {UserJSON(u) : u \in users},
                             !.TotalResults = Cardinality(users)]]

\* A handler that returns without writing: the framework answers 200.
ImplicitResponse == [status |-> StatusOK, message |-> "", body |-> NoBody]

\* ------------------------------------------------ persistence collaborator
ByUsername(s, username) == {u \in s : u.Username = username}
ById(s, id) == {u \in s : u.ID = id}

\* persistance.CreateUser: refuses a key already present, atomically.
DuplicatedKey(s, u) == ByUsername(s, u.Username) # {} \/ ById(s, u.ID) # {}
CreateUser(s, u) == s \cup {u}

\* persistance.SaveUser: writes the record under its ID, inserting it when
\* the ID is gone; a username held by another record is refused.
SaveConflict(s, u) == \E r \in ByUsername(s, u.Username) : r.ID # u.ID
SaveUser(s, u) == (s \ ById(s, u.ID)) \cup {u}

\* persistance.DeleteUser
DeleteUser(s, id) == s \ ById(s, id)

\* ----------------------------------------------------------------- Init
SeedUser == [ID |-> 1, Username |-> "root", PasswordHash |-> HashPassword("pw1"),
             Role |-> ROLE_ADMIN, Zones |-> Slice(<<>>)]

Init ==
    /\ store = {SeedUser}
    /\ nextId = 2
    /\ now = 0
    /\ cred = [c \in Clients |-> NoToken]
    /\ op = [c \in Clients |-> "none"]
    /\ pc = [c \in Clients |-> "ready"]
    /\ req = [c \in Clients |-> NoRequest]
    /\ ident = [c \in Clients |-> NoIdentity]
    /\ user = [c \in Clients |-> NoUser]
    /\ resp = [c \in Clients |-> NoResponse]


\* ------------------------------------------------------------- requests
\* The request ends: the response is written and the handler's locals go.
Finish(c, r) ==
    /\ resp' = [resp EXCEPT ![c] = r]
    /\ pc' = [pc EXCEPT ![c] = "ready"]
    /\ user' = [user EXCEPT ![c] = NoUser]

\* The request of client c enters handler h with the identity its
\* credential yields.
Enter(c, h, r) ==
    /\ pc[c] = "ready"
    /\ op' = [op EXCEPT ![c] = h]
    /\ req' = [req EXCEPT ![c] = r]
    /\ ident' = [ident EXCEPT ![c] = ValidateToken(r.cred, cred[c])]

\* What a request may present as its credential: nothing, a string that is
\* no token, or the token the client holds.
CredInputs == {"none", "malformed", "token"}

\* A body that does not bind, and the bodies that do.
BadBody == [NoRequest EXCEPT !.bodyOk = FALSE]
LoginBody(username, password) ==
    [NoRequest EXCEPT !.Username = username, !.Password = password]
NewUserBody(username, password, role, zones) ==
    [NoRequest EXCEPT !.Username = username, !.Password = password,
                      !.Role = role, !.Zones = zones]
UserBody(username, role, zones) ==
    [NoRequest EXCEPT !.Username = username, !.Role = role, !.Zones = zones]

LoginBodies ==
    {BadBody} \cup {LoginBody(u, p) : u \in Usernames, p \in Passwords}
NewUserBodies ==
    { BadBody,
      NewUserBody("alice", "pw1", ROLE_ADMIN, NilSlice),
      NewUserBody("alice", "pw2", ROLE_ZONE_ADMIN, Slice(<<"z1">>)),
      NewUserBody("alice", "pw1", "Guest", NilSlice) }
UserBodies ==
    { BadBody,
      UserBody("", "", NilSlice),
      UserBody("", "", Slice(<<>>)),
      UserBody("root", ROLE_ZONE_ADMIN, Slice(<<"z1">>)) }

\* A request: a body, the credential presented, the id of the path, and
\* the collaborator that fails while the request is served.
Request(body, presented, id, fault) ==
    [body EXCEPT !.cred = presented, !.id = id, !.fault = fault]

\* The requests of each handler: every body under every credential, and
\* the well-formed ones of a token holder with each fault.
AuthRequests ==
    {Request(b, "none", 0, f) : b \in LoginBodies, f \in {"none"}}
    \cup {Request(b, "none", 0, f) :
              b \in LoginBodies \ {BadBody}, f \in {"store", "sign"}}
UsersRequests ==
    {Request(NoRequest, p, 0, "none") : p \in CredInputs}
    \cup {Request(NoRequest, "token", 0, "store")}
NewUserRequests ==
    {Request(b, p, 0, "none") : b \in NewUserBodies, p \in CredInputs}
    \cup {Request(NewUserBody("alice", "pw1", ROLE_ADMIN, NilSlice), "token", 0, f) :
              f \in {"hash", "store"}}
UpdateRequests ==
    {Request(b, p, id, "none") : b \in UserBodies, p \in CredInputs, id \in Ids}
    \cup {Request(UserBody("", "", Slice(<<>>)), "token", id, f) :
              id \in Ids, f \in {"get", "save"}}
DeleteRequests ==
    {Request(NoRequest, p, id, "none") : p \in CredInputs, id \in Ids}
    \cup {Request(NoRequest, "token", id, "store") : id \in Ids}

\* Variant: any validated identity passes the gate.
PermittedAnyRole(identity) == identity.kind = "valid"

\* Variant: the gate looks the identity up in the store again.
PermittedRevalidated(identity) ==
    /\ HasRole(identity, ROLE_ADMIN)
    /\ \E u \in store : u.Username = identity.Username /\ u.Role = identity.Role

\* The gate every lifecycle handler opens with: auth.HasRole(context, ROLE_ADMIN).
Permitted(identity) == HasRole(identity, ROLE_ADMIN)

NotPermitted ==
    RESTError(StatusUnauthorized,
              "user does not have permission to access this resource")

\* ----------------------------------------------------------- HandleAuth
\* persistance.GetUserByUsername: the records found (none on an error).
GetUserByUsername(s, r) ==
    IF r.fault = "store" THEN {} ELSE ByUsername(s, r.Username)

UserNotFound == RESTError(StatusUnauthorized, "user not found")
InvalidPassword == RESTError(StatusUnauthorized, "invalid password")

\* Variant: the password is not validated.
AuthResponseNoPasswordCheck(s, r) ==
    LET found == GetUserByUsername(s, r) IN
    IF ~r.bodyOk THEN RESTError(StatusBadRequest, "invalid body")
    ELSE IF found = {} THEN UserNotFound
    ELSE LET dbUser == CHOOSE u \in found : TRUE IN
         IF r.fault = "sign"
         THEN RESTError(StatusInternalServerError, "unable to generate token")
         ELSE LoginResponse(dbUser, GenerateToken(dbUser.Username, dbUser.Role))

\* The response of a login.
AuthResponse(s, r) ==
    LET found == GetUserByUsername(s, r) IN
    IF ~r.bodyOk THEN RESTError(StatusBadRequest, "invalid body")
    ELSE IF found = {} THEN UserNotFound
    ELSE LET dbUser == CHOOSE u \in found : TRUE IN
         IF ~ValidatePassword(dbUser.PasswordHash, r.Password)
         THEN InvalidPassword
         ELSE IF r.fault = "sign"
         THEN RESTError(StatusInternalServerError, "unable to generate token")
         ELSE LoginResponse(dbUser, GenerateToken(dbUser.Username, dbUser.Role))

\* Variant: a login with a wrong password locks the account.
HandleAuthLocking(c) ==
    \E r \in AuthRequests :
        LET response == AuthResponse(store, r)
        IN  /\ Enter(c, "auth", r)
            /\ Finish(c, response)
            /\ cred' = IF response.status = StatusOK
                       THEN [cred EXCEPT ![c] = response.body.Token]
                       ELSE cred
            /\ store' = IF response = InvalidPassword
                        THEN {[u EXCEPT !.PasswordHash =
                                   IF u.Username = r.Username
                                   THEN NoHash ELSE u.PasswordHash] :
                                 u \in store}
                        ELSE store
            /\ UNCHANGED <<nextId, now>>

HandleAuth(c) ==
    \E r \in AuthRequests :
        LET response == AuthResponse(store, r)
        IN  /\ Enter(c, "auth", r)
            /\ Finish(c, response)
            \* the client keeps the token of a successful login
            /\ cred' = IF response.status = StatusOK
                       THEN [cred EXCEPT ![c] = response.body.Token]
                       ELSE cred
            /\ UNCHANGED <<store, nextId, now>>

\* ---------------------------------------------------------- HandleUsers
UsersResponseTo(s, identity, r) ==
    IF ~Permitted(identity) THEN NotPermitted
    ELSE IF r.fault = "store"
    THEN RESTError(StatusInternalServerError, "unable to get users")
    ELSE UsersResponse(s)

HandleUsers(c) ==
    \E r \in UsersRequests :
        /\ Enter(c, "users", r)
        /\ Finish(c, UsersResponseTo(store, ValidateToken(r.cred, cred[c]), r))
        /\ UNCHANGED <<store, nextId, now, cred>>

\* -------------------------------------------------------- HandleNewUser
\* Variant: any role that is not empty is accepted.
ValidRoleNonEmpty(role) == role # ""

ValidRole(role) == ~(role # ROLE_ADMIN /\ role # ROLE_ZONE_ADMIN)

\* Variant: the zones of the request are stored as they came.
NewUserZonesKept(zones) == zones

\* if payload.Zones == nil { payload.Zones = []string{} }
NewUserZones(zones) == IF zones.isNil THEN Slice(<<>>) ELSE zones

NewUser(id, payload, hash) ==
    [ID |-> id, Username |-> payload.Username, PasswordHash |-> hash,
     Role |-> payload.Role, Zones |-> NewUserZones(payload.Zones)]

\* Variant: a request without a validated identity is told so.
NewUserRefusalDistinct(identity, r) ==
    IF identity.kind # "valid"
    THEN RESTError(StatusUnauthorized, "missing or invalid credential")
    ELSE IF ~Permitted(identity) THEN NotPermitted
    ELSE IF ~r.bodyOk THEN RESTError(StatusBadRequest, "invalid request body")
    ELSE IF ~ValidRole(r.Role) THEN RESTError(StatusBadRequest, "invalid role")
    ELSE IF r.fault = "hash"
    THEN RESTError(StatusInternalServerError, "unable to hash password")
    ELSE NoResponse

\* What stops the handler before it builds the record: a response, or
\* NoResponse when nothing does.
NewUserRefusal(identity, r) ==
    IF ~Permitted(identity) THEN NotPermitted
    ELSE IF ~r.bodyOk THEN RESTError(StatusBadRequest, "invalid request body")
    ELSE IF ~ValidRole(r.Role) THEN RESTError(StatusBadRequest, "invalid role")
    ELSE IF r.fault = "hash"
    THEN RESTError(StatusInternalServerError, "unable to hash password")
    ELSE NoResponse

\* Lines 82-115: the gate, the body, the role, the hash, the record.
NewUserBegin(c) ==
    \E r \in NewUserRequests :
        LET refusal == NewUserRefusal(ValidateToken(r.cred, cred[c]), r)
        IN  /\ Enter(c, "new", r)
            /\ IF refusal # NoResponse
               THEN Finish(c, refusal) /\ UNCHANGED nextId
               ELSE /\ nextId <= MaxIds
                    /\ user' = [user EXCEPT ![c] =
                                   NewUser(nextId, r, HashPassword(r.Password))]
                    /\ nextId' = nextId + 1
                    /\ pc' = [pc EXCEPT ![c] = "create"]
                    /\ resp' = [resp EXCEPT ![c] = NoResponse]
            /\ UNCHANGED <<store, now, cred>>

\* Variant: a duplicated key is answered like any other store error.
NewUserStoredNoConflict(duplicated, failed) ==
    IF duplicated \/ failed
    THEN RESTError(StatusInternalServerError, "unable to store user")
    ELSE ImplicitResponse

\* The response to what persistance.CreateUser returned.
NewUserStored(duplicated, failed) ==
    IF duplicated THEN RESTError(StatusConflict, "username in use")
    ELSE IF failed
    THEN RESTError(StatusInternalServerError, "unable to store user")
    ELSE ImplicitResponse

\* Variant: the record is written with persistance.SaveUser.
NewUserStoreBySave(c) ==
    /\ pc[c] = "create"
    /\ LET duplicated == DuplicatedKey(store, user[c])
           failed == req[c].fault = "store"
       IN  /\ store' = IF failed THEN store ELSE SaveUser(store, user[c])
           /\ resp' = [resp EXCEPT ![c] = NewUserStored(duplicated, failed)]
           /\ pc' = [pc EXCEPT ![c] = "ready"]
           /\ user' = [user EXCEPT ![c] = NoUser]
    /\ UNCHANGED <<nextId, now, cred, op, req, ident>>

\* Lines 117-126: persistance.CreateUser and the response to its error.
NewUserStore(c) ==
    /\ pc[c] = "create"
    /\ LET duplicated == DuplicatedKey(store, user[c])
           failed == req[c].fault = "store"
       IN  /\ store' = IF duplicated \/ failed THEN store
                       ELSE CreateUser(store, user[c])
           /\ Finish(c, NewUserStored(duplicated, failed))
    /\ UNCHANGED <<nextId, now, cred, op, req, ident>>

\* ----------------------------------------------------- HandleUpdateUser
\* persistance.GetUserById: the records found (none on an error).
GetUserById(s, r) == IF r.fault = "get" THEN {} ELSE ById(s, r.id)

\* Variant: the body and the record are looked at before the gate.
UpdateRefusalGateLast(identity, r, found) ==
    IF ~r.bodyOk THEN RESTError(StatusBadRequest, "invalid request body")
    ELSE IF found = {} THEN RESTError(StatusBadRequest, "user does not exist")
    ELSE IF ~Permitted(identity) THEN NotPermitted
    ELSE NoResponse

UpdateRefusal(identity, r, found) ==
    IF ~Permitted(identity) THEN NotPermitted
    ELSE IF ~r.bodyOk THEN RESTError(StatusBadRequest, "invalid request body")
    ELSE IF found = {} THEN RESTError(StatusBadRequest, "user does not exist")
    ELSE NoResponse

\* Variant: an ID the store does not hold is taken as a new record.
UpdateUserBeginUpsert(c) ==
    \E r \in UpdateRequests :
        LET found == GetUserById(store, r)
            refusal == UpdateRefusal(ValidateToken(r.cred, cred[c]), r, {NoUser})
        IN  /\ Enter(c, "update", r)
            /\ IF refusal # NoResponse
               THEN Finish(c, refusal)
               ELSE /\ user' = [user EXCEPT ![c] =
                                   IF found = {}
                                   THEN [NoUser EXCEPT !.ID = r.id]
                                   ELSE CHOOSE u \in found : TRUE]
                    /\ pc' = [pc EXCEPT ![c] = "save"]
                    /\ resp' = [resp EXCEPT ![c] = NoResponse]
            /\ UNCHANGED <<store, nextId, now, cred>>

\* Lines 134-152: the gate, the body, persistance.GetUserById.
UpdateUserBegin(c) ==
    \E r \in UpdateRequests :
        LET found == GetUserById(store, r)
            refusal == UpdateRefusal(ValidateToken(r.cred, cred[c]), r, found)
        IN  /\ Enter(c, "update", r)
            /\ IF refusal # NoResponse
               THEN Finish(c, refusal)
               ELSE /\ user' = [user EXCEPT ![c] = CHOOSE u \in found : TRUE]
                    /\ pc' = [pc EXCEPT ![c] = "save"]
                    /\ resp' = [resp EXCEPT ![c] = NoResponse]
            /\ UNCHANGED <<store, nextId, now, cred>>

\* Variant: the requested zones are appended to the user's.
UpdatedUserMerged(u, payload) ==
    [u EXCEPT !.Zones = Slice(u.Zones.elems \o payload.Zones.elems)]

\* user.Zones = payload.Zones
UpdatedUser(u, payload) == [u EXCEPT !.Zones = payload.Zones]

UpdateStored(refused) ==
    IF refused
    THEN RESTError(StatusInternalServerError, "unable to store user")
    ELSE ImplicitResponse

\* Lines 154-160: the assignment, persistance.SaveUser, the response.
UpdateUserSave(c) ==
    /\ pc[c] = "save"
    /\ LET u == UpdatedUser(user[c], req[c])
           refused == req[c].fault = "save" \/ SaveConflict(store, u)
       IN  /\ store' = IF refused THEN store ELSE SaveUser(store, u)
           /\ Finish(c, UpdateStored(refused))
    /\ UNCHANGED <<nextId, now, cred, op, req, ident>>

\* ----------------------------------------------------- HandleDeleteUser
\* Variant: deleting an ID the store does not hold is a success.
DeleteResponseSilent(identity, s, r) ==
    IF ~Permitted(identity) THEN NotPermitted
    ELSE IF r.fault = "store"
    THEN RESTError(StatusBadRequest, "unable to delete user")
    ELSE ImplicitResponse

DeleteResponse(identity, s, r) ==
    IF ~Permitted(identity) THEN NotPermitted
    ELSE IF ById(s, r.id) = {}
    THEN RESTError(StatusBadRequest, "user does not exist")
    ELSE IF r.fault = "store"
    THEN RESTError(StatusBadRequest, "unable to delete user")
    ELSE ImplicitResponse

DeleteStore(identity, s, r) ==
    IF Permitted(identity) /\ r.fault # "store" THEN DeleteUser(s, r.id) ELSE s

HandleDeleteUser(c) ==
    \E r \in DeleteRequests :
        LET identity == ValidateToken(r.cred, cred[c])
        IN  /\ Enter(c, "delete", r)
            /\ store' = DeleteStore(identity, store, r)
            /\ Finish(c, DeleteResponse(identity, store, r))
            /\ UNCHANGED <<nextId, now, cred>>

\* ---------------------------------------------------------------- clock
Tick ==
    /\ now < MaxTime
    /\ now' = now + 1
    /\ UNCHANGED <<store, nextId, cred, op, pc, req, ident, user, resp>>

\* ------------------------------------------------------- specifications
\* One client and every handler.
Next ==
    \/ HandleAuth(1)
    \/ HandleUsers(1)
    \/ NewUserBegin(1)
    \/ NewUserStore(1)
    \/ UpdateUserBegin(1)
    \/ UpdateUserSave(1)
    \/ HandleDeleteUser(1)

Spec == Init /\ [][Next]_vars

\* One client, the handlers that log in, list, create and delete, and the
\* clock that lets tokens expire.
NextToken ==
    \/ HandleAuth(1)
    \/ HandleUsers(1)
    \/ NewUserBegin(1)
    \/ NewUserStore(1)
    \/ HandleDeleteUser(1)
    \/ Tick

SpecToken == Init /\ [][NextToken]_vars

\* Every client logs in once and then sends one create request; the
\* create requests run concurrently.
LoginFirst(c) == op[c] = "none" /\ HandleAuth(c)
CreateOnce(c) == op[c] \in {"none", "auth"} /\ NewUserBegin(c)

NextCreate ==
    \/ \E c \in Clients : LoginFirst(c)
    \/ \E c \in Clients : CreateOnce(c)
    \/ \E c \in Clients : NewUserStore(c)

SpecCreate == Init /\ [][NextCreate]_vars

\* Every client logs in once and then sends one update or one delete
\* request; the requests run concurrently, an update's lookup and its
\* save being two steps.
UpdateOnce(c) == op[c] \in {"none", "auth"} /\ UpdateUserBegin(c)
DeleteOnce(c) == op[c] \in {"none", "auth"} /\ HandleDeleteUser(c)

NextRace ==
    \/ \E c \in Clients : LoginFirst(c)
    \/ \E c \in Clients : UpdateOnce(c)
    \/ \E c \in Clients : UpdateUserSave(c)
    \/ \E c \in Clients : DeleteOnce(c)

SpecRace == Init /\ [][NextRace]_vars


\* ======================================================================
\* Properties
\* ======================================================================
Gated == {"users", "new", "update", "delete"}

\* Client c's request is answered.
Finished(c) == pc[c] = "ready" /\ op[c] # "none"

\* This step takes a request of client c into a handler.
Entered(c) ==
    /\ pc[c] = "ready"
    /\ <<op[c], req[c], ident[c], resp[c], pc[c]>>
           # <<op'[c], req'[c], ident'[c], resp'[c], pc'[c]>>

\* This step is the persistance.CreateUser call of client c's request.
CreateReturns(c) == pc[c] = "create" /\ pc'[c] = "ready"

\* This step is the persistance.SaveUser call of client c's request.
SaveReturns(c) == pc[c] = "save" /\ pc'[c] = "ready"

UniqueUsernames ==
    \A u, v \in store : u.Username = v.Username => u = v

\* ---------------------------------------------------------------- C1
\* The clients whose create request for username u is Admin-authorized
\* and well-formed, and meets no failing collaborator.
Creators(u) ==
    {c \in Clients : /\ op[c] = "new"
                     /\ Permitted(ident[c])
                     /\ req[c].bodyOk /\ ValidRole(req[c].Role)
                     /\ req[c].fault = "none"
                     /\ req[c].Username = u}

Succeeded(c) == Finished(c) /\ resp[c].status = StatusOK
Conflicted(c) == Finished(c) /\ resp[c].status = StatusConflict

\* C1: no two records of the store share a username; of the concurrent
\* Admin-authorized create requests carrying one username at most one
\* succeeds, and once all of them are answered (the username being free at
\* the start) exactly one has succeeded and every other one got 409.
C1_UniqueUsername ==
    /\ UniqueUsernames
    /\ \A u \in Usernames :
        /\ Cardinality({c \in Creators(u) : Succeeded(c)}) <= 1
        /\ ( /\ Creators(u) # {}
             /\ \A c \in Creators(u) : Finished(c)
             /\ ByUsername({SeedUser}, u) = {} )
           => \E w \in Creators(u) :
                 /\ Succeeded(w)
                 /\ \A c \in Creators(u) \ {w} : Conflicted(c)

C1_Witness ==
    \E w, c \in Creators("alice") :
        w # c /\ Succeeded(w) /\ Conflicted(c) /\ ByUsername(store, "alice") # {}

\* ---------------------------------------------------------------- C2
\* C2: a request that enters a gated handler (list, create, update,
\* delete) with an identity that is absent, malformed or of a role other
\* than Admin is answered 401 at once, and the store is as it was.
C2_GateRefuses ==
    [][\A c \in Clients :
         ( /\ Entered(c)
           /\ op'[c] \in Gated
           /\ ~(ident'[c].kind = "valid" /\ ident'[c].Role = ROLE_ADMIN) )
         => ( /\ resp'[c].status = StatusUnauthorized
              /\ pc'[c] = "ready"
              /\ store' = store )]_vars

C2_Witness ==
    \E c \in Clients :
        /\ Finished(c) /\ op[c] = "update"
        /\ ident[c].kind = "valid" /\ ident[c].Role = ROLE_ZONE_ADMIN
        /\ ById(store, req[c].id) # {}
        /\ resp[c].status = StatusUnauthorized

\* ---------------------------------------------------------------- C3
\* C3: the response to a login with an unknown username is the response
\* to a login with a known username and a wrong password.
C3_Indistinguishable ==
    \A r1, r2 \in AuthRequests :
        ( /\ r1.bodyOk /\ r1.fault = "none"
          /\ r2.bodyOk /\ r2.fault = "none"
          /\ ByUsername(store, r1.Username) = {}
          /\ \E u \in ByUsername(store, r2.Username) :
                 ~ValidatePassword(u.PasswordHash, r2.Password) )
        => AuthResponse(store, r1) = AuthResponse(store, r2)

\* ---------------------------------------------------------------- C4
\* C4: the Zones of every stored user is a slice, never nil.
C4_ZonesNeverNil == \A u \in store : ~u.Zones.isNil

\* ---------------------------------------------------------------- C5
\* C5: when persistance.CreateUser is called with a username the store
\* already holds, the response is 409 and the store is left as it was.
C5_ConflictKeepsRecord ==
    [][\A c \in Clients :
         (CreateReturns(c) /\ ByUsername(store, user[c].Username) # {})
         => (resp'[c].status = StatusConflict /\ store' = store)]_vars

C5_Witness ==
    \E c \in Clients :
        /\ Finished(c) /\ op[c] = "new"
        /\ resp[c].status = StatusConflict
        /\ \E u \in store : /\ u.Username = req[c].Username
                            /\ u.Role # req[c].Role
                            /\ ~ValidatePassword(u.PasswordHash, req[c].Password)

\* ---------------------------------------------------------------- C6
\* C6: the gate decides from the token alone: a gated request presenting
\* an Admin token that has not expired is never refused 401, whatever the
\* store holds (the token's user may be deleted), and a gated request that
\* presents a token and is not refused carries that token's identity.
C6_TokenStateless ==
    \A c \in Clients :
        (Finished(c) /\ op[c] \in Gated /\ req[c].cred = "token")
        => /\ (cred[c].Role = ROLE_ADMIN /\ now < cred[c].exp)
                  => resp[c].status # StatusUnauthorized
           /\ resp[c].status # StatusUnauthorized
                  => /\ ident[c].kind = "valid"
                     /\ ident[c].Role = ROLE_ADMIN
                     /\ ident[c].Username = cred[c].Username
                     /\ cred[c].Role = ROLE_ADMIN

C6_Witness ==
    \E c \in Clients :
        /\ Finished(c) /\ op[c] = "users" /\ req[c].cred = "token"
        /\ resp[c].status = StatusOK
        /\ cred[c].Role = ROLE_ADMIN
        /\ ByUsername(store, cred[c].Username) = {}

\* ---------------------------------------------------------------- C7
\* C7: a persistance.SaveUser call of an update that succeeds on an ID the
\* store holds replaces that record by itself with the requested Zones,
\* and changes no other record.
C7_UpdateReplacesZonesOnly ==
    [][\A c \in Clients :
         ( /\ SaveReturns(c)
           /\ resp'[c].status = StatusOK
           /\ ById(store, req[c].id) # {} )
         => \E old \in ById(store, req[c].id) :
               store' = (store \ {old})
                            \cup {[old EXCEPT !.Zones = req[c].Zones]}]_vars

C7_Witness ==
    \E c \in Clients :
        /\ Finished(c) /\ op[c] = "update" /\ resp[c].status = StatusOK
        /\ req[c].Role # ""
        /\ \E u \in ById(store, req[c].id) :
              /\ u.Zones = req[c].Zones
              /\ u.Role # req[c].Role
              /\ u.Username # req[c].Username

\* ---------------------------------------------------------------- C8
\* C8: every stored user's role is Admin or ZoneAdmin, and an authorized,
\* well-formed create request with any other role is answered 400.
C8_RolesRecognized ==
    /\ \A u \in store : u.Role \in {ROLE_ADMIN, ROLE_ZONE_ADMIN}
    /\ \A c \in Clients :
        ( /\ op[c] = "new"
          /\ ident[c].kind = "valid" /\ ident[c].Role = ROLE_ADMIN
          /\ req[c].bodyOk
          /\ req[c].Role \notin {ROLE_ADMIN, ROLE_ZONE_ADMIN} )
        => (Finished(c) /\ resp[c].status = StatusBadRequest)

C8_Witness ==
    \E c \in Clients :
        /\ Finished(c) /\ op[c] = "new"
        /\ ident[c].kind = "valid" /\ ident[c].Role = ROLE_ADMIN
        /\ req[c].Role = "Guest"
        /\ resp[c].message = "invalid role"

\* ---------------------------------------------------------------- C9
\* C9: the account lifecycle, step by step.  A create that succeeds
\* stores a record under the requested username whose hash validates the
\* requested password and no other; no step changes the username or the
\* hash of a stored record; a login that meets no failing collaborator
\* succeeds exactly when the store holds the username with a hash that
\* validates the password, and is answered 401 otherwise; a delete that
\* succeeds leaves no record of the deleted user's name; and a name the
\* store does not hold enters it only by a create that succeeds.
C9_AccountLifecycle ==
    [][\A c \in Clients :
         /\ (CreateReturns(c) /\ resp'[c].status = StatusOK)
                => \E u \in store' :
                      /\ u.Username = req[c].Username
                      /\ \A p \in Passwords :
                            ValidatePassword(u.PasswordHash, p)
                                <=> p = req[c].Password
         /\ \A u \in store, v \in store' :
                u.ID = v.ID => /\ u.Username = v.Username
                               /\ u.PasswordHash = v.PasswordHash
         /\ (Entered(c) /\ op'[c] = "auth" /\ req'[c].bodyOk
                        /\ req'[c].fault = "none")
                => /\ resp'[c].status \in {StatusOK, StatusUnauthorized}
                   /\ resp'[c].status = StatusOK
                         <=> \E u \in ByUsername(store, req'[c].Username) :
                                ValidatePassword(u.PasswordHash,
                                                 req'[c].Password)
         /\ (Entered(c) /\ op'[c] = "delete" /\ resp'[c].status = StatusOK)
                => /\ ById(store, req'[c].id) # {}
                   /\ \A u \in ById(store, req'[c].id) :
                         ByUsername(store', u.Username) = {}
         /\ \A name \in Usernames :
                (ByUsername(store, name) = {} /\ ByUsername(store', name) # {})
                => \E d \in Clients : /\ CreateReturns(d)
                                      /\ resp'[d].status = StatusOK
                                      /\ req[d].Username = name]_vars

\* The client logged in as alice, alice was deleted, and the login with
\* alice's password is answered 401.
C9_Witness ==
    \E c \in Clients :
        /\ Finished(c) /\ op[c] = "auth"
        /\ req[c].Username = "alice" /\ req[c].fault = "none"
        /\ cred[c].Username = "alice"
        /\ ValidatePassword(HashPassword(req[c].Password), "pw1")
        /\ cred[c].Role = ROLE_ADMIN
        /\ ByUsername(store, "alice") = {}
        /\ resp[c].status = StatusUnauthorized

\* --------------------------------------------------------------- C10
\* C10: a login answered 200 carries a token whose claims are the
\* Username and the Role of the stored record of that username, and the
\* username, role and zones of the response are that record's.
C10_LoginReflectsRecord ==
    [][\A c \in Clients :
         (Entered(c) /\ op'[c] = "auth" /\ resp'[c].status = StatusOK)
         => \E u \in store :
               /\ u.Username = req'[c].Username
               /\ resp'[c].body.Token.Username = u.Username
               /\ resp'[c].body.Token.Role = u.Role
               /\ resp'[c].body.Username = u.Username
               /\ resp'[c].body.Role = u.Role
               /\ resp'[c].body.Zones = u.Zones
               /\ cred'[c] = resp'[c].body.Token]_vars

C10_Witness ==
    \E c \in Clients :
        /\ Finished(c) /\ op[c] = "auth" /\ resp[c].status = StatusOK
        /\ resp[c].body.Token.Role = ROLE_ZONE_ADMIN
        /\ resp[c].body.Zones = Slice(<<"z1">>)
        /\ \E u \in store : /\ u.Username = resp[c].body.Username
                            /\ u.Zones = resp[c].body.Zones

\* --------------------------------------------------------------- C11
\* C11: an Admin's delete of an ID the store does not hold is answered
\* 400 "user does not exist", never with a success, and the store after
\* the request is the store before it.
C11_DeleteUnknownFails ==
    [][\A c \in Clients :
         ( /\ Entered(c) /\ op'[c] = "delete"
           /\ Permitted(ident'[c])
           /\ ById(store, req'[c].id) = {} )
         => ( /\ resp'[c] = RESTError(StatusBadRequest, "user does not exist")
              /\ resp'[c].status # StatusOK
              /\ store' = store )]_vars

C11_Witness ==
    \E c \in Clients :
        /\ Finished(c) /\ op[c] = "delete"
        /\ Permitted(ident[c])
        /\ req[c].fault = "none"
        /\ ById(store, req[c].id) = {}
        /\ resp[c].message = "user does not exist"
        /\ store # {}

\* --------------------------------------------------------------- C12
\* C12: an Admin's well-formed update of an ID the store does not hold is
\* answered 400 "user does not exist" at once: no save follows, no record
\* is created and the store is as it was.
C12_UpdateUnknownFails ==
    [][\A c \in Clients :
         ( /\ Entered(c) /\ op'[c] = "update"
           /\ Permitted(ident'[c])
           /\ req'[c].bodyOk
           /\ ById(store, req'[c].id) = {} )
         => ( /\ resp'[c] = RESTError(StatusBadRequest, "user does not exist")
              /\ pc'[c] = "ready"
              /\ store' = store )]_vars

C12_Witness ==
    \E c \in Clients :
        /\ Finished(c) /\ op[c] = "update"
        /\ Permitted(ident[c])
        /\ req[c].bodyOk /\ req[c].fault = "none"
        /\ req[c].Zones = Slice(<<"z1">>)
        /\ ById(store, req[c].id) = {}
        /\ resp[c].message = "user does not exist"

\* --------------------------------------------------------------- C13
\* What gated handler h answers at once to request r when the request's
\* context carries the given identity.
AnswerTo(h, identity, s, r) ==
    CASE h = "users" -> UsersResponseTo(s, identity, r)
      [] h = "new" -> NewUserRefusal(identity, r)
      [] h = "update" -> UpdateRefusal(identity, r, GetUserById(s, r))
      [] h = "delete" -> DeleteResponse(identity, s, r)

\* C13: a list, create, update or delete request that carries a valid
\* ZoneAdmin credential gets exactly the response the same request gets
\* with no credential at all, and like it changes nothing in the store.
C13_UniformRefusal ==
    [][\A c \in Clients :
         ( /\ Entered(c) /\ op'[c] \in Gated
           /\ ident'[c].kind = "valid"
           /\ ident'[c].Role = ROLE_ZONE_ADMIN )
         => ( /\ resp'[c] = AnswerTo(op'[c], NoIdentity, store, req'[c])
              /\ resp'[c] = AnswerTo(op'[c], ValidateToken("none", cred[c]),
                                     store, req'[c])
              /\ resp'[c] # NoResponse
              /\ pc'[c] = "ready"
              /\ store' = store )]_vars

\* A ZoneAdmin's create request with a well-formed body was refused.
C13_Witness ==
    \E c \in Clients :
        /\ Finished(c) /\ op[c] = "new"
        /\ ident[c].kind = "valid" /\ ident[c].Role = ROLE_ZONE_ADMIN
        /\ req[c].bodyOk /\ ValidRole(req[c].Role)
        /\ resp[c] = NotPermitted

\* --------------------------------------------------------------- C14
\* The status of every outcome of an Admin's create request, a success
\* being answered with status created: a body that does not bind or a role
\* that is not recognized 400, a hashing failure 500, a username in use
\* 409, any other storage failure 500, and otherwise created.
CreateStatusMapped(created) ==
    \A c \in Clients :
        /\ (Entered(c) /\ op'[c] = "new" /\ Permitted(ident'[c]))
               => IF ~req'[c].bodyOk \/ ~ValidRole(req'[c].Role)
                  THEN resp'[c].status = StatusBadRequest
                  ELSE IF req'[c].fault = "hash"
                  THEN resp'[c].status = StatusInternalServerError
                  ELSE pc'[c] = "create"
        /\ CreateReturns(c)
               => IF DuplicatedKey(store, user[c])
                  THEN resp'[c].status = StatusConflict
                  ELSE IF req[c].fault = "store"
                  THEN resp'[c].status = StatusInternalServerError
                  ELSE resp'[c].status = created /\ user[c] \in store'

\* C14: the create-user operation answers each outcome with its
\* contractual status: 201 for a success, 400 for a bad body or an invalid
\* role, 409 for a duplicate username, 500 for a hashing or storage failure.
C14_CreateStatus == [][CreateStatusMapped(201)]_vars

\* The same mapping with the status the handler leaves to the framework
\* on a success.
CreateStatusObserved == [][CreateStatusMapped(StatusOK)]_vars

\* --------------------------------------------------------------- C15
\* C15: a create request without zones that succeeds stores, under the
\* requested username, a record whose Zones is a slice with no element,
\* not nil.
C15_OmittedZonesEmpty ==
    [][\A c \in Clients :
         ( /\ CreateReturns(c)
           /\ resp'[c].status = StatusOK
           /\ req[c].Zones.isNil )
         => \E u \in store' \ store :
               /\ u.Username = req[c].Username
               /\ ~u.Zones.isNil
               /\ u.Zones.elems = <<>>]_vars

C15_Witness ==
    \E c \in Clients :
        /\ Finished(c) /\ op[c] = "new" /\ resp[c].status = StatusOK
        /\ req[c].Zones = NilSlice
        /\ \E u \in ByUsername(store, req[c].Username) :
              u.ID # SeedUser.ID /\ u.Zones = Slice(<<>>)

\* --------------------------------------------------------------- C16
\* The password hashes a response carries.
HashesIn(response) ==
    {u.PasswordHash : u \in response.body.Results} \ {NoHash}

C17_DeletedStaysDeleted ==
    \A u, d \in Clients :
        ( /\ Finished(u) /\ op[u] = "update"
          /\ Finished(d) /\ op[d] = "delete"
          /\ Permitted(ident[d]) /\ resp[d].status = StatusOK
          /\ req[u].id = req[d].id )
        => ById(store, req[d].id) = {}

\* --------------------------------------------------------------- C18
\* C18: a login or a list of users, whatever its response, leaves the
\* store as it was: no record is changed, added or removed.
C18_ReadOnly ==
    [][\A c \in Clients :
         (Entered(c) /\ op'[c] \in {"auth", "users"})
         => ( /\ store' = store
              /\ pc'[c] = "ready"
              /\ nextId' = nextId )]_vars

\* A login with a wrong password was refused while the store holds the
\* user, after a create.
C18_Witness ==
    \E c \in Clients :
        /\ Finished(c) /\ op[c] = "auth"
        /\ resp[c] = InvalidPassword
        /\ Cardinality(store) = 2
        /\ \E u \in ByUsername(store, req[c].Username) :
              u.PasswordHash # NoHash

\* --------------------------------------------------------------- C19
\* C19: a create, update or delete request whose identity is not a valid
\* Admin is answered with the not-permitted response at once, whatever its
\* body, its role field, its id and the state of the store: the body is
\* not judged, no identifier is drawn, no record is read into the handler,
\* a failing store is not met, no store call follows and the store is as
\* it was.
C19_GateFirst ==
    [][\A c \in Clients :
         ( /\ Entered(c) /\ op'[c] \in {"new", "update", "delete"}
           /\ ~Permitted(ident'[c]) )
         => ( /\ resp'[c] = NotPermitted
              /\ pc'[c] = "ready"
              /\ user'[c] = NoUser
              /\ nextId' = nextId
              /\ store' = store )]_vars

\* A ZoneAdmin's update with a body that does not bind, for an ID the
\* store does not hold, was refused as not permitted.
C19_Witness ==
    \E c \in Clients :
        /\ Finished(c) /\ op[c] = "update"
        /\ ident[c].kind = "valid" /\ ident[c].Role = ROLE_ZONE_ADMIN
        /\ ~req[c].bodyOk
        /\ ById(store, req[c].id) = {}
        /\ resp[c].status = StatusUnauthorized

\* A ZoneAdmin's request that would have met a failing store was refused
\* as not permitted.
RefusedBeforeFault ==
    \E c \in Clients :
        /\ Finished(c) /\ op[c] \in {"new", "update", "delete"}
        /\ ident[c].kind = "valid" /\ ident[c].Role = ROLE_ZONE_ADMIN
        /\ req[c].fault # "none"
        /\ resp[c].status = StatusUnauthorized

====
